---- MODULE Spec2Model ----
(***************************************************************************)
(* Brambl-JS, src/src/Requests.js: the Loki-layer JSON-RPC client.         *)
(*                                                                         *)
(* The client object holds `url` and `headers`.  Every public operation    *)
(* is an async function: it runs synchronously up to its first await, so   *)
(* validation, the construction of the envelope and the call of fetch()    *)
(* are one atomic step; the continuation after `await` (lines 47-49) is a  *)
(* second step that runs when the transport settles.                       *)
(*                                                                         *)
(* JavaScript values are written as their source/JSON text: "undefined",   *)
(* "null", "0", "\"a\"", "[\"k\"]", "{\"ok\":true}".  Objects whose        *)
(* properties the code reads are functions from property names to values.  *)
(***************************************************************************)
EXTENDS Naturals, Sequences, FiniteSets, TLC

VARIABLES
  url,      \* this.url
  headers,  \* this.headers
  calls,    \* the operation calls made so far, in call order, with their promise
  sent      \* the fetch() invocations, in order, with what the transport answered

vars == <<url, headers, calls, sent>>

---------------------------------------------------------------------------
(* JavaScript values *)

Undefined == "undefined"

\* ToBoolean: the values `!x` and `x || y` treat as false.
Falsy == {"undefined", "null", "0", "\"\"", "false", "NaN"}

Truthy(v) == v \notin Falsy

\* Array.isArray
ArrayValues == {"[]", "[\"k\"]"}

IsArray(v) == v \in ArrayValues

\* {} : an object with no own property
EmptyObject == [p \in {} |-> Undefined]

\* A value held by reference: an object with its own properties, an Error
\* with its message, undefined or null.
Ref(type, text, props) == [type |-> type, text |-> text, props |-> props]

UndefinedRef == Ref("undefined", "", EmptyObject)

NullRef == Ref("null", "", EmptyObject)

Obj(props) == Ref("object", "", props)

\* new Error(message)
Error(message) == Ref("Error", message, EmptyObject)

\* What evaluating a statement threw: nothing.
NoError == Ref("none", "", EmptyObject)

\* o.p for an object o: undefined when o has no such property
Prop(o, p) == IF p \in DOMAIN o THEN o[p] ELSE Undefined

\* !params
NotRef(r) == r.type \in {"undefined", "null"}

---------------------------------------------------------------------------
(* Bounds and input domains *)

\* Calls a concurrent caller makes (SpecConcurrent).
MaxCalls == 2

DefaultUrl == "http://localhost:9085/"

DefaultApiKey == "topl_the_world!"

Urls == {DefaultUrl, "http://example:1234/"}

ApiKeys == {DefaultApiKey, "k2"}

\* The id argument: omitted, a string, and falsy values.
Ids == {Undefined, "\"7\"", "0", "null"}

Absent == "<absent>"

StrVals == {Absent, "\"\"", "\"a\""}

NumVals == {Absent, "0", "5"}

KeysVals == {Absent, "\"a\"", "[]", "[\"k\"]"}

\* [p \in DOMAIN f |-> f[p]] without the properties marked absent
Present(f) == [p \in {q \in DOMAIN f : f[q] # Absent} |-> f[p]]

\* An optional property: absent, present and undefined, present with a value.
OptVals == {Absent, Undefined, "\"memo\""}

\* The parameter objects over string-valued properties strs, number-valued
\* properties nums and optional properties opts: every property absent or
\* present with each value.
Objects(strs, nums, opts) ==
  { Obj(Present(s @@ n @@ o)) :
      s \in [strs -> StrVals], n \in [nums -> NumVals], o \in [opts -> OptVals] }

\* The params argument: omitted, or one of the objects.
Args(strs, nums, opts) == {UndefinedRef} \cup Objects(strs, nums, opts)

\* The params argument of getBalancesByKey.
KeysArgs == {UndefinedRef, NullRef} \cup { Obj(Present([publicKeys |-> v])) : v \in KeysVals }

\* What the node answers: parsed JSON bodies.
Bodies ==
  { [result |-> "{\"ok\":true}"],
    [error |-> "{\"code\":1,\"message\":\"x\"}"],
    [error |-> "null"],
    [result |-> "0", error |-> "0"],
    [result |-> "null", error |-> "\"\""] }

\* What the transport does with a request: a parsed body, or a failure of
\* fetch() or of .json().
Replies ==
  { [kind |-> "body", body |-> b] : b \in Bodies }
    \cup { [kind |-> "failure", body |-> EmptyObject] }

NoReply == [kind |-> "none", body |-> EmptyObject]

---------------------------------------------------------------------------
(* LokiRequest, lines 30-54 *)

\* { ...params }: the own properties of params; none for undefined or null
Spread(params) == IF params.type = "object" THEN params.props ELSE EmptyObject

\* Mutant: the id is passed through without `|| "1"`.
LokiRequestBody_noDefault(routeInfo, params) ==
  [ jsonrpc |-> "2.0",
    id      |-> routeInfo.id,
    method  |-> routeInfo.method,
    params  |-> << Spread(params) >> ]

\* const body = {...}, lines 33-40
LokiRequestBody(routeInfo, params) ==
  [ jsonrpc |-> "2.0",
    id      |-> IF Truthy(routeInfo.id) THEN routeInfo.id ELSE "\"1\"",
    method  |-> routeInfo.method,
    params  |-> << Spread(params) >> ]

\* JSON.stringify of a value: NaN is written as null
StringifyValue(v) == IF v = "NaN" THEN "null" ELSE v

\* JSON.stringify of an object: properties whose value is undefined are
\* left out.  The result is kept as the JSON document's structure.
StringifyObject(o) ==
  [p \in {q \in DOMAIN o : o[q] # Undefined} |-> StringifyValue(o[p])]

\* JSON.stringify(body), line 45
Stringify(body) ==
  [ jsonrpc |-> "\"" \o body.jsonrpc \o "\"",
    id      |-> StringifyValue(body.id),
    method  |-> "\"" \o body.method \o "\"",
    params  |-> [i \in DOMAIN body.params |-> StringifyObject(body.params[i])] ]

\* Mutant: the request goes to the default address, not to self.url.
LokiRequestPayload_defaultUrl(routeInfo, params, self) ==
  [ url     |-> DefaultUrl \o routeInfo.route,
    method  |-> "POST",
    headers |-> self.headers,
    body    |-> Stringify(LokiRequestBody(routeInfo, params)) ]

\* fetch(self.url + route, payload), lines 41-47: the request put on the
\* wire.  fetch reads payload.headers when it is called.
LokiRequestPayload(routeInfo, params, self) ==
  [ url     |-> self.url \o routeInfo.route,
    method  |-> "POST",
    headers |-> self.headers,
    body    |-> Stringify(LokiRequestBody(routeInfo, params)) ]

\* Mutant: any body that has an error property is thrown.
LokiRequestSettle_hasError(reply) ==
  IF reply.kind = "failure"
    THEN [state |-> "rejected", value |-> Ref("FetchError", "request failed", EmptyObject)]
    ELSE IF "error" \in DOMAIN reply.body
      THEN [state |-> "rejected",  value |-> Obj(reply.body)]
      ELSE [state |-> "fulfilled", value |-> Obj(reply.body)]

\* Mutant: the result property is returned instead of the body.
LokiRequestSettle_result(reply) ==
  IF reply.kind = "failure"
    THEN [state |-> "rejected", value |-> Ref("FetchError", "request failed", EmptyObject)]
    ELSE IF Truthy(Prop(reply.body, "error"))
      THEN [state |-> "rejected",  value |-> Obj(reply.body)]
      ELSE [state |-> "fulfilled",
            value |-> Ref("json", Prop(reply.body, "result"), EmptyObject)]

\* Lines 47-53: what the promise settles with once the transport answered.
LokiRequestSettle(reply) ==
  IF reply.kind = "failure"
    THEN [state |-> "rejected", value |-> Ref("FetchError", "request failed", EmptyObject)]
    ELSE IF Truthy(Prop(reply.body, "error"))
      THEN [state |-> "rejected",  value |-> Obj(reply.body)]
      ELSE [state |-> "fulfilled", value |-> Obj(reply.body)]

---------------------------------------------------------------------------
(* The client object, lines 62-77 *)

\* function (url = "http://localhost:9085/", apiKey = "topl_the_world!")
Requests(u, apiKey) ==
  /\ url = IF u = Undefined THEN DefaultUrl ELSE u
  /\ headers = ("Content-Type" :> "application/json")
                 @@ ("x-api-key" :> IF apiKey = Undefined THEN DefaultApiKey ELSE apiKey)

Init ==
  /\ \E u \in {Undefined} \cup Urls, k \in {Undefined} \cup ApiKeys : Requests(u, k)
  /\ calls = << >>
  /\ sent = << >>

setUrl(u) ==
  /\ url' = u
  /\ UNCHANGED <<headers, calls, sent>>

\* Mutant: the headers object is replaced by one that holds the key only.
setApiKey_replace(apiKey) ==
  /\ headers' = ("x-api-key" :> apiKey)
  /\ UNCHANGED <<url, calls, sent>>

setApiKey(apiKey) ==
  /\ headers' = [headers EXCEPT !["x-api-key"] = apiKey]
  /\ UNCHANGED <<url, calls, sent>>

---------------------------------------------------------------------------
(* The statements of the operations' bodies.  Each evaluates to what it    *)
(* throws, NoError when it throws nothing.                                 *)

\* Reading params.p when params is undefined or null
TypeError(p, params) ==
  Ref("TypeError", "Cannot read property '" \o p \o "' of " \o params.type, EmptyObject)

\* Reading an identifier that no enclosing scope declares
ReferenceError(name) == Ref("ReferenceError", name \o " is not defined", EmptyObject)

\* if (!params) throw new Error("A parameter object must be specified")
RequireObject(params) ==
  IF NotRef(params) THEN Error("A parameter object must be specified") ELSE NoError

\* if (!params.p) throw new Error(message)
Require(params, p, message) ==
  IF NotRef(params) THEN TypeError(p, params)
  ELSE IF ~Truthy(Prop(params.props, p)) THEN Error(message)
  ELSE NoError

\* Mutant: fee is checked like every other field.
RequireFee_falsy(params, message) == Require(params, "fee", message)

\* if (!params.fee && params.fee !== 0) throw new Error(message)
RequireFee(params, message) ==
  IF NotRef(params) THEN TypeError("fee", params)
  ELSE IF ~Truthy(Prop(params.props, "fee")) /\ Prop(params.props, "fee") # "0"
    THEN Error(message)
  ELSE NoError

\* if (!params.p || !Array.isArray(params.p)) throw new Error(message)
RequireArray(params, p, message) ==
  IF NotRef(params) THEN TypeError(p, params)
  ELSE IF ~Truthy(Prop(params.props, p)) \/ ~IsArray(Prop(params.props, p))
    THEN Error(message)
  ELSE NoError

\* The statements run in order; the first throw ends the function.
RECURSIVE FirstThrow(_)
FirstThrow(stmts) ==
  IF stmts = << >> THEN NoError
  ELSE IF Head(stmts) # NoError THEN Head(stmts)
  ELSE FirstThrow(Tail(stmts))

\* The default parameter id = "1": used when the argument is undefined
IdParameter(id) == IF id = Undefined THEN "\"1\"" ELSE id

\* Mutant: the request is sent before the checks' outcome is looked at.
Operation_sendFirst(name, args, idArg, thrown, route, method, params) ==
  /\ sent' = Append(sent,
        [ request |-> LokiRequestPayload(
                        [route |-> route, method |-> method, id |-> IdParameter(idArg)],
                        params, [url |-> url, headers |-> headers]),
          reply   |-> NoReply ])
  /\ calls' = Append(calls,
        IF thrown # NoError
          THEN [op |-> name, params |-> args, id |-> idArg,
                fetch |-> 0, state |-> "rejected", value |-> thrown]
          ELSE [op |-> name, params |-> args, id |-> idArg,
                fetch |-> Len(sent) + 1, state |-> "pending", value |-> NoError])
  /\ UNCHANGED <<url, headers>>

\* Mutant: a call whose request equals one still in flight shares that
\* request instead of issuing its own.
Operation_coalesce(name, args, idArg, thrown, route, method, params) ==
  LET request == LokiRequestPayload(
                   [route |-> route, method |-> method, id |-> IdParameter(idArg)],
                   params, [url |-> url, headers |-> headers])
      same == {r \in DOMAIN sent : sent[r].request = request /\ sent[r].reply = NoReply}
  IN  IF thrown # NoError
        THEN /\ calls' = Append(calls, [op |-> name, params |-> args, id |-> idArg,
                                        fetch |-> 0, state |-> "rejected", value |-> thrown])
             /\ UNCHANGED <<url, headers, sent>>
      ELSE IF same # {}
        THEN /\ calls' = Append(calls, [op |-> name, params |-> args, id |-> idArg,
                                        fetch |-> CHOOSE r \in same : TRUE,
                                        state |-> "pending", value |-> NoError])
             /\ UNCHANGED <<url, headers, sent>>
      ELSE /\ sent' = Append(sent, [request |-> request, reply |-> NoReply])
           /\ calls' = Append(calls, [op |-> name, params |-> args, id |-> idArg,
                                      fetch |-> Len(sent) + 1, state |-> "pending",
                                      value |-> NoError])
           /\ UNCHANGED <<url, headers>>

\* The body every operation shares: an async function whose checks either
\* throw (the promise is rejected, LokiRequest is never called) or fall
\* through to `return LokiRequest({ route, method, id }, params, this)`,
\* which calls fetch() before it first awaits.  args/idArg are what the
\* caller passed; params is what the function hands to LokiRequest.
Operation(name, args, idArg, thrown, route, method, params) ==
  IF thrown # NoError
    THEN /\ calls' = Append(calls, [op |-> name, params |-> args, id |-> idArg,
                                    fetch |-> 0, state |-> "rejected", value |-> thrown])
         /\ UNCHANGED <<url, headers, sent>>
    ELSE /\ sent' = Append(sent,
              [ request |-> LokiRequestPayload(
                              [route |-> route, method |-> method, id |-> IdParameter(idArg)],
                              params, [url |-> url, headers |-> headers]),
                reply   |-> NoReply ])
         /\ calls' = Append(calls, [op |-> name, params |-> args, id |-> idArg,
                                    fetch |-> Len(sent) + 1, state |-> "pending",
                                    value |-> NoError])
         /\ UNCHANGED <<url, headers>>

\* Mutant: a transport failure makes the client fall back to the default url.
LokiRequestResume_fallback(r, reply) ==
  /\ r \in DOMAIN sent
  /\ sent[r].reply = NoReply
  /\ sent' = [sent EXCEPT ![r].reply = reply]
  /\ calls' = [c \in DOMAIN calls |->
                 IF calls[c].fetch = r
                   THEN [calls[c] EXCEPT !.state = LokiRequestSettle(reply).state,
                                         !.value = LokiRequestSettle(reply).value]
                   ELSE calls[c]]
  /\ url' = IF reply.kind = "failure" THEN DefaultUrl ELSE url
  /\ UNCHANGED headers

\* The continuation of LokiRequest after `await`: the transport answers
\* request r and the promise of the call that issued it settles.
LokiRequestResume(r, reply) ==
  /\ r \in DOMAIN sent
  /\ sent[r].reply = NoReply
  /\ sent' = [sent EXCEPT ![r].reply = reply]
  /\ calls' = [c \in DOMAIN calls |->
                 IF calls[c].fetch = r
                   THEN [calls[c] EXCEPT !.state = LokiRequestSettle(reply).state,
                                         !.value = LokiRequestSettle(reply).value]
                   ELSE calls[c]]
  /\ UNCHANGED <<url, headers>>

---------------------------------------------------------------------------
(* The operations, lines 91-537.  Each is the function of that name; its   *)
(* checks are listed in the order of the function's statements.            *)

\* lines 91-96: no check of params itself before params.publicKeys is read
getBalancesByKey(params, id) ==
  Operation("getBalancesByKey", params, id,
    FirstThrow(<<
        RequireArray(params, "publicKeys", "A list of publicKeys must be specified") >>),
    "wallet/", "balances", params)

\* lines 104-109: const params = {}
listOpenKeyfiles(id) ==
  Operation("listOpenKeyfiles", UndefinedRef, id, NoError, "wallet/", "listOpenKeyfiles", Obj(EmptyObject))

\* lines 119-125
generateKeyfile(params, id) ==
  Operation("generateKeyfile", params, id,
    FirstThrow(<<
        RequireObject(params),
        Require(params, "password", "A password must be provided to encrypt the keyfile") >>),
    "wallet/", "generateKeyfile", params)

\* lines 136-143
lockKeyfile(params, id) ==
  Operation("lockKeyfile", params, id,
    FirstThrow(<<
        RequireObject(params),
        Require(params, "publicKey", "A publicKey field must be specified"),
        Require(params, "password", "A password must be provided to encrypt the keyfile") >>),
    "wallet/", "lockKeyfile", params)

\* lines 154-161
unlockKeyfile(params, id) ==
  Operation("unlockKeyfile", params, id,
    FirstThrow(<<
        RequireObject(params),
        Require(params, "publicKey", "A publicKey field must be specified"),
        Require(params, "password", "A password must be provided to encrypt the keyfile") >>),
    "wallet/", "unlockKeyfile", params)

\* Mutant: the method is the function's own name, not "signTx".
signTransaction_ownName(params, id) ==
  Operation("signTransaction", params, id,
    FirstThrow(<<
        RequireObject(params),
        Require(params, "publicKey", "A publicKey field must be specified"),
        Require(params, "tx", "A tx object must be specified") >>),
    "wallet/", "signTransaction", params)

\* lines 172-179
signTransaction(params, id) ==
  Operation("signTransaction", params, id,
    FirstThrow(<<
        RequireObject(params),
        Require(params, "publicKey", "A publicKey field must be specified"),
        Require(params, "tx", "A tx object must be specified") >>),
    "wallet/", "signTx", params)

\* lines 189-195
broadcastTx(params, id) ==
  Operation("broadcastTx", params, id,
    FirstThrow(<<
        RequireObject(params),
        Require(params, "tx", "A tx object must be specified") >>),
    "wallet/", "broadcastTx", params)

\* lines 210-218
transferPolys(params, id) ==
  Operation("transferPolys", params, id,
    FirstThrow(<<
        RequireObject(params),
        Require(params, "recipient", "A recipient must be specified"),
        Require(params, "amount", "An amount must be specified"),
        RequireFee(params, "A fee must be specified") >>),
    "wallet/", "transferPolys", params)

\* lines 233-241
transferArbits(params, id) ==
  Operation("transferArbits", params, id,
    FirstThrow(<<
        RequireObject(params),
        Require(params, "recipient", "A recipient must be specified"),
        Require(params, "amount", "An amount must be specified"),
        RequireFee(params, "A fee must be specified") >>),
    "wallet/", "transferArbits", params)

\* lines 260-270
createAssets(params, id) ==
  Operation("createAssets", params, id,
    FirstThrow(<<
        RequireObject(params),
        Require(params, "issuer", "An asset issuer must be specified"),
        Require(params, "assetCode", "An assetCode must be specified"),
        Require(params, "recipient", "A recipient must be specified"),
        Require(params, "amount", "An amount must be specified"),
        RequireFee(params, "A fee must be specified") >>),
    "asset/", "createAssets", params)

\* lines 285-295
createAssetsPrototype(params, id) ==
  Operation("createAssetsPrototype", params, id,
    FirstThrow(<<
        RequireObject(params),
        Require(params, "issuer", "An asset issuer must be specified"),
        Require(params, "assetCode", "An assetCode must be specified"),
        Require(params, "recipient", "A recipient must be specified"),
        Require(params, "amount", "An amount must be specified"),
        RequireFee(params, "A fee must be specified") >>),
    "asset/", "createAssetsPrototype", params)

\* lines 312-322
transferAssets(params, id) ==
  Operation("transferAssets", params, id,
    FirstThrow(<<
        RequireObject(params),
        Require(params, "issuer", "An asset issuer must be specified"),
        Require(params, "assetCode", "An assetCode must be specified"),
        Require(params, "recipient", "A recipient must be specified"),
        Require(params, "amount", "An amount must be specified"),
        RequireFee(params, "A fee must be specified") >>),
    "asset/", "transferAssets", params)

\* Mutant: sender is checked last, after amount and fee.
transferAssetsPrototype_senderLast(params, id) ==
  Operation("transferAssetsPrototype", params, id,
    FirstThrow(<<
        RequireObject(params),
        Require(params, "issuer", "An asset issuer must be specified"),
        Require(params, "assetCode", "An assetCode must be specified"),
        Require(params, "recipient", "A recipient must be specified"),
        Require(params, "amount", "An amount must be specified"),
        RequireFee(params, "A fee must be specified"),
        Require(params, "sender", "A sender must be specified") >>),
    "asset/", "transferAssetsPrototype", params)

\* lines 339-350
transferAssetsPrototype(params, id) ==
  Operation("transferAssetsPrototype", params, id,
    FirstThrow(<<
        RequireObject(params),
        Require(params, "issuer", "An asset issuer must be specified"),
        Require(params, "assetCode", "An assetCode must be specified"),
        Require(params, "recipient", "A recipient must be specified"),
        Require(params, "sender", "A sender must be specified"),
        Require(params, "amount", "An amount must be specified"),
        RequireFee(params, "A fee must be specified") >>),
    "asset/", "transferAssetsPrototype", params)

\* lines 364-373
transferTargetAssets(params, id) ==
  Operation("transferTargetAssets", params, id,
    FirstThrow(<<
        RequireObject(params),
        Require(params, "recipient", "A recipient must be specified"),
        Require(params, "assetId", "An assetId is required for this request"),
        Require(params, "amount", "An amount must be specified"),
        RequireFee(params, "A fee must be specified") >>),
    "asset/", "transferTargetAssets", params)

\* lines 388-398
transferTargetAssetsPrototype(params, id) ==
  Operation("transferTargetAssetsPrototype", params, id,
    FirstThrow(<<
        RequireObject(params),
        Require(params, "recipient", "A recipient must be specified"),
        Require(params, "sender", "A sender must be specified"),
        Require(params, "assetId", "An assetId is required for this request"),
        Require(params, "amount", "An amount must be specified"),
        RequireFee(params, "A fee must be specified") >>),
    "asset/", "transferTargetAssetsPrototype", params)

\* lines 412-418
getTransactionById(params, id) ==
  Operation("getTransactionById", params, id,
    FirstThrow(<<
        RequireObject(params),
        Require(params, "transactionId", "A transactionId must be specified") >>),
    "nodeView/", "transactionById", params)

\* lines 428-434
getTransactionFromMempool(params, id) ==
  Operation("getTransactionFromMempool", params, id,
    FirstThrow(<<
        RequireObject(params),
        Require(params, "transactionId", "A transactionId must be specified") >>),
    "nodeView/", "transactionFromMempool", params)

\* Mutant: the method is the function's own name.
getMempool_ownName(id) ==
  Operation("getMempool", UndefinedRef, id, NoError, "nodeView/", "getMempool", Obj(EmptyObject))

\* lines 442-447: const params = {}
getMempool(id) ==
  Operation("getMempool", UndefinedRef, id, NoError, "nodeView/", "mempool", Obj(EmptyObject))

\* lines 457-463
getBlockById(params, id) ==
  Operation("getBlockById", params, id,
    FirstThrow(<<
        RequireObject(params),
        Require(params, "blockId", "A blockId must be specified") >>),
    "nodeView/", "blockById", params)

\* lines 475-480: const params = {}
chainInfo(id) ==
  Operation("chainInfo", UndefinedRef, id, NoError, "debug/", "info", Obj(EmptyObject))

\* The names a statement of calcDelay can read: its one parameter and the
\* module's own declarations (lines 16, 17, 30, 62).  `params` is not among
\* them.
calcDelayScope == {"id", "fetch", "pollingConfirm", "LokiRequest", "Requests"}

\* Reading identifier name in scope: a ReferenceError when it is undeclared
Resolve(name, scope) == IF name \in scope THEN NoError ELSE ReferenceError(name)

\* lines 491-498: function (id = "1"), whose body reads `params`.  The
\* caller's first argument is bound to id; a second one is dropped.  The
\* first statement, if (!params), throws before anything else is read.
calcDelay(first, second) ==
  Operation("calcDelay", first, second,
    FirstThrow(<< Resolve("params", calcDelayScope) >>),
    "debug/", "delay", UndefinedRef)

\* lines 506-511: const params = {}
myBlocks(id) ==
  Operation("myBlocks", UndefinedRef, id, NoError, "debug/", "myBlocks", Obj(EmptyObject))

\* lines 519-524: const params = {}
blockGenerators(id) ==
  Operation("blockGenerators", UndefinedRef, id, NoError, "debug/", "generators", Obj(EmptyObject))

\* lines 532-537: const params = {}
printChain(id) ==
  Operation("printChain", UndefinedRef, id, NoError, "debug/", "chain", Obj(EmptyObject))

---------------------------------------------------------------------------
(* Specifications *)

\* The caller has made no call yet.
FirstCall == calls = << >>

\* A caller that configures the client and makes one call of any operation
\* with any arguments, which the transport then answers.
Next ==
  \/ \E u \in Urls : setUrl(u)
  \/ \E k \in ApiKeys : setApiKey(k)
  \/ \E r \in DOMAIN sent, reply \in Replies : LokiRequestResume(r, reply)
  \/ \E params \in KeysArgs, id \in Ids : FirstCall /\ getBalancesByKey(params, id)
  \/ \E id \in Ids : FirstCall /\ listOpenKeyfiles(id)
  \/ \E params \in Args({"password"}, {}, {}), id \in Ids :
       FirstCall /\ generateKeyfile(params, id)
  \/ \E params \in Args({"publicKey", "password"}, {}, {}), id \in Ids :
       FirstCall /\ lockKeyfile(params, id)
  \/ \E params \in Args({"publicKey", "password"}, {}, {}), id \in Ids :
       FirstCall /\ unlockKeyfile(params, id)
  \/ \E params \in Args({"publicKey", "tx"}, {}, {}), id \in Ids :
       FirstCall /\ signTransaction(params, id)
  \/ \E params \in Args({"tx"}, {}, {}), id \in Ids :
       FirstCall /\ broadcastTx(params, id)
  \/ \E params \in Args({"recipient"}, {"amount", "fee"}, {"data"}), id \in Ids :
       FirstCall /\ transferPolys(params, id)
  \/ \E params \in Args({"recipient"}, {"amount", "fee"}, {}), id \in Ids :
       FirstCall /\ transferArbits(params, id)
  \/ \E params \in Args({"issuer", "assetCode", "recipient"}, {"amount", "fee"}, {}), id \in Ids :
       FirstCall /\ createAssets(params, id)
  \/ \E params \in Args({"issuer", "assetCode", "recipient"}, {"amount", "fee"}, {}), id \in Ids :
       FirstCall /\ createAssetsPrototype(params, id)
  \/ \E params \in Args({"issuer", "assetCode", "recipient"}, {"amount", "fee"}, {}), id \in Ids :
       FirstCall /\ transferAssets(params, id)
  \/ \E params \in Args({"issuer", "assetCode", "recipient", "sender"}, {"amount", "fee"}, {}), id \in Ids :
       FirstCall /\ transferAssetsPrototype(params, id)
  \/ \E params \in Args({"recipient", "assetId"}, {"amount", "fee"}, {}), id \in Ids :
       FirstCall /\ transferTargetAssets(params, id)
  \/ \E params \in Args({"recipient", "sender", "assetId"}, {"amount", "fee"}, {}), id \in Ids :
       FirstCall /\ transferTargetAssetsPrototype(params, id)
  \/ \E params \in Args({"transactionId"}, {}, {}), id \in Ids :
       FirstCall /\ getTransactionById(params, id)
  \/ \E params \in Args({"transactionId"}, {}, {}), id \in Ids :
       FirstCall /\ getTransactionFromMempool(params, id)
  \/ \E id \in Ids : FirstCall /\ getMempool(id)
  \/ \E params \in Args({"blockId"}, {}, {}), id \in Ids :
       FirstCall /\ getBlockById(params, id)
  \/ \E id \in Ids : FirstCall /\ chainInfo(id)
  \/ \E first \in Args({"blockId"}, {"numBlocks"}, {}), second \in Ids :
       FirstCall /\ calcDelay(first, second)
  \/ \E id \in Ids : FirstCall /\ myBlocks(id)
  \/ \E id \in Ids : FirstCall /\ blockGenerators(id)
  \/ \E id \in Ids : FirstCall /\ printChain(id)

Spec == Init /\ [][Next]_vars

\* The caller may make another call.
MoreCalls == Len(calls) < MaxCalls

TxArgs == {UndefinedRef, Obj([tx |-> "\"a\""])}

ConcurrentIds == {Undefined, "\"7\""}

ConcurrentReplies ==
  { [kind |-> "body", body |-> [result |-> "{\"ok\":true}"]],
    [kind |-> "body", body |-> [error |-> "{\"code\":1,\"message\":\"x\"}"]],
    [kind |-> "failure", body |-> EmptyObject] }

\* A caller that makes up to MaxCalls calls without awaiting them and
\* changes the configuration in between, in any interleaving with the
\* transport's answers.
NextConcurrent ==
  \/ \E u \in Urls : setUrl(u)
  \/ \E k \in ApiKeys : setApiKey(k)
  \/ \E r \in DOMAIN sent, reply \in ConcurrentReplies : LokiRequestResume(r, reply)
  \/ \E params \in TxArgs, id \in ConcurrentIds : MoreCalls /\ broadcastTx(params, id)
  \/ \E id \in ConcurrentIds : MoreCalls /\ getMempool(id)

SpecConcurrent == Init /\ [][NextConcurrent]_vars

---------------------------------------------------------------------------
(* What the specification document states, for the claims below *)

\* The operations that take a parameter object, with their required fields
\* in the order of the document's operation table.
SpecRequired(op) ==
  CASE op = "getBalancesByKey" -> <<"publicKeys">>
    [] op = "generateKeyfile" -> <<"password">>
    [] op \in {"lockKeyfile", "unlockKeyfile"} -> <<"publicKey", "password">>
    [] op = "signTransaction" -> <<"publicKey", "tx">>
    [] op = "broadcastTx" -> <<"tx">>
    [] op \in {"transferPolys", "transferArbits"} -> <<"recipient", "amount", "fee">>
    [] op \in {"createAssets", "createAssetsPrototype", "transferAssets"} ->
         <<"issuer", "assetCode", "recipient", "amount", "fee">>
    [] op = "transferAssetsPrototype" ->
         <<"issuer", "assetCode", "recipient", "amount", "fee", "sender">>
    [] op = "transferTargetAssets" -> <<"recipient", "assetId", "amount", "fee">>
    [] op = "transferTargetAssetsPrototype" ->
         <<"recipient", "assetId", "amount", "fee", "sender">>
    [] op \in {"getTransactionById", "getTransactionFromMempool"} -> <<"transactionId">>
    [] op = "getBlockById" -> <<"blockId">>
    [] op = "calcDelay" -> <<"blockId", "numBlocks">>
    [] OTHER -> << >>

\* The same, with sender where the two Prototype transfers document it:
\* before amount, resp. before assetId.
DocumentedRequired(op) ==
  CASE op = "transferAssetsPrototype" ->
         <<"issuer", "assetCode", "recipient", "sender", "amount", "fee">>
    [] op = "transferTargetAssetsPrototype" ->
         <<"recipient", "sender", "assetId", "amount", "fee">>
    [] OTHER -> SpecRequired(op)

NoParamOps ==
  {"listOpenKeyfiles", "getMempool", "chainInfo", "myBlocks", "blockGenerators", "printChain"}

FeeOps ==
  {"transferPolys", "transferArbits", "createAssets", "createAssetsPrototype",
   "transferAssets", "transferAssetsPrototype", "transferTargetAssets",
   "transferTargetAssetsPrototype"}

SpecRoute(op) ==
  CASE op \in {"getBalancesByKey", "listOpenKeyfiles", "generateKeyfile", "lockKeyfile",
               "unlockKeyfile", "signTransaction", "broadcastTx", "transferPolys",
               "transferArbits"} -> "wallet/"
    [] op \in {"createAssets", "createAssetsPrototype", "transferAssets",
               "transferAssetsPrototype", "transferTargetAssets",
               "transferTargetAssetsPrototype"} -> "asset/"
    [] op \in {"getTransactionById", "getTransactionFromMempool", "getMempool",
               "getBlockById"} -> "nodeView/"
    [] OTHER -> "debug/"

\* The validation error that names a field.
FieldError(field) ==
  Error(CASE field = "publicKeys" -> "A list of publicKeys must be specified"
          [] field = "publicKey" -> "A publicKey field must be specified"
          [] field = "password" -> "A password must be provided to encrypt the keyfile"
          [] field = "tx" -> "A tx object must be specified"
          [] field = "recipient" -> "A recipient must be specified"
          [] field = "amount" -> "An amount must be specified"
          [] field = "fee" -> "A fee must be specified"
          [] field = "issuer" -> "An asset issuer must be specified"
          [] field = "assetCode" -> "An assetCode must be specified"
          [] field = "sender" -> "A sender must be specified"
          [] field = "assetId" -> "An assetId is required for this request"
          [] field = "transactionId" -> "A transactionId must be specified"
          [] field = "blockId" -> "A blockId must be specified"
          [] field = "numBlocks" -> "A number of blocks must be specified")

ParameterObjectError == Error("A parameter object must be specified")

\* A value that is a parsed JSON value, by its text.
Json(text) == Ref("json", text, EmptyObject)

\* The positions of the fields of order that object o lacks: absent or falsy.
Lacking(order, o) == {i \in DOMAIN order : ~Truthy(Prop(o, order[i]))}

\* The same, fee counting as present when it is 0.
LackingButFeeZero(order, o) ==
  {i \in Lacking(order, o) : ~(order[i] = "fee" /\ Prop(o, "fee") = "0")}

Range(seq) == {seq[i] : i \in DOMAIN seq}

First(positions) == CHOOSE i \in positions : \A j \in positions : i <= j

\* This step is a call of an operation.
CallStep == Len(calls') = Len(calls) + 1

NewCall == calls'[Len(calls')]

Dispatched(call) == call.fetch # 0

RequestOf(call) == sent[call.fetch].request

ReplyOf(call) == sent[call.fetch].reply

---------------------------------------------------------------------------
(* Claims *)

\* C1 as stated, for the two operations it names: a call of
\* transferAssetsPrototype or transferTargetAssetsPrototype with a parameter
\* object that lacks some required field (absent or falsy, fee = 0 counting
\* as present) fails with the error naming the first such field in the
\* order of the document's table, where sender comes last.
C1_TableOrder ==
  \A c \in DOMAIN calls :
    LET call == calls[c]
        order == SpecRequired(call.op)
        lacking == LackingButFeeZero(order, call.params.props)
    IN  (/\ call.op \in {"transferAssetsPrototype", "transferTargetAssetsPrototype"}
         /\ call.params.type = "object"
         /\ lacking # {}) =>
          /\ call.state = "rejected"
          /\ call.value = FieldError(order[First(lacking)])

\* C1 (amended): for every operation with required fields except calcDelay,
\* a call with a parameter object that lacks some required field (absent or
\* falsy; for fee, absent or falsy other than 0) fails, before any request,
\* with the error naming the first such field in the order in which the
\* function documents and checks them: sender before amount for
\* transferAssetsPrototype, sender before assetId for
\* transferTargetAssetsPrototype.
C1_CheckOrder ==
  \A c \in DOMAIN calls :
    LET call == calls[c]
        order == DocumentedRequired(call.op)
        lacking == LackingButFeeZero(order, call.params.props)
    IN  (call.op # "calcDelay" /\ call.params.type = "object" /\ lacking # {}) =>
          /\ call.state = "rejected"
          /\ call.value = FieldError(order[First(lacking)])
          /\ ~Dispatched(call)

\* C1 witness: transferAssetsPrototype without amount and without sender
\* was rejected for the sender.
C1_Witness ==
  \E c \in DOMAIN calls :
    /\ calls[c].op = "transferAssetsPrototype"
    /\ calls[c].params.type = "object"
    /\ {"issuer", "assetCode", "recipient", "fee"} \subseteq DOMAIN calls[c].params.props
    /\ \A p \in {"issuer", "assetCode", "recipient"} : Truthy(calls[c].params.props[p])
    /\ "amount" \notin DOMAIN calls[c].params.props
    /\ "sender" \notin DOMAIN calls[c].params.props
    /\ calls[c].state = "rejected"
    /\ calls[c].value = FieldError("sender")

\* C2: for the eight transfer and create operations, with every other
\* required field present, fee = 0 is dispatched, an absent fee fails with
\* the fee error, and amount = 0 fails with the amount error.
C2_FeeZeroAmountZero ==
  \A c \in DOMAIN calls :
    LET call == calls[c]
        o == call.params.props
        others(field) == {p \in Range(DocumentedRequired(call.op)) : p # field}
        truthy(ps) == \A p \in ps : Truthy(Prop(o, p))
    IN  (call.op \in FeeOps /\ call.params.type = "object") =>
          /\ (Prop(o, "fee") = "0" /\ "fee" \in DOMAIN o /\ truthy(others("fee"))) =>
                Dispatched(call)
          /\ ("fee" \notin DOMAIN o /\ truthy(others("fee"))) =>
                call.state = "rejected" /\ call.value = FieldError("fee")
          /\ (Prop(o, "amount") = "0" /\ truthy(others("amount") \ {"fee"})
                /\ (Truthy(Prop(o, "fee")) \/ Prop(o, "fee") = "0")) =>
                call.state = "rejected" /\ call.value = FieldError("amount")

\* C2 witness: a transferTargetAssets call with fee 0 was dispatched.
C2_Witness ==
  \E c \in DOMAIN calls :
    /\ calls[c].op = "transferTargetAssets"
    /\ Prop(calls[c].params.props, "fee") = "0"
    /\ Dispatched(calls[c])
    /\ RequestOf(calls[c]).body.params[1]["fee"] = "0"

\* C3: a call that fails at once (no parameter object, a missing field, or
\* any other throw of the function's checks) issues no request: the step
\* leaves the requests sent as they were.
C3_NoRequestOnValidationFailure ==
  [][(CallStep /\ NewCall.state = "rejected") => sent' = sent]_vars

\* C3 witness: a call was rejected by a check and nothing was ever sent.
C3_Witness ==
  \E c \in DOMAIN calls :
    /\ calls[c].state = "rejected"
    /\ calls[c].value = FieldError("amount")
    /\ sent = << >>

\* C4 as stated: a body with an error property, whatever its value, makes
\* the call fail with the node's error object itself.
C4_AnyErrorField ==
  \A c \in DOMAIN calls :
    (Dispatched(calls[c]) /\ ReplyOf(calls[c]).kind = "body"
       /\ "error" \in DOMAIN ReplyOf(calls[c]).body) =>
      /\ calls[c].state = "rejected"
      /\ calls[c].value = Json(ReplyOf(calls[c]).body["error"])

\* C4 (amended): a body whose error property is truthy makes the call fail
\* with the whole parsed body (which holds the node's error object as its
\* error property); a body whose error property is absent or falsy (null,
\* 0, "") is returned as a success.
C4_TruthyErrorField ==
  \A c \in DOMAIN calls :
    LET call == calls[c] IN
    (Dispatched(call) /\ ReplyOf(call).kind = "body") =>
      /\ call.value = Obj(ReplyOf(call).body)
      /\ call.state = IF Truthy(Prop(ReplyOf(call).body, "error"))
                        THEN "rejected" ELSE "fulfilled"

\* C4 witness: the node answered {"error":{"code":1,"message":"x"}} and the
\* call was rejected with that body.
C4_Witness ==
  \E c \in DOMAIN calls :
    /\ Dispatched(calls[c])
    /\ calls[c].state = "rejected"
    /\ calls[c].value = Obj([error |-> "{\"code\":1,\"message\":\"x\"}"])
    /\ ReplyOf(calls[c]).body = [error |-> "{\"code\":1,\"message\":\"x\"}"]

\* C5 as stated: a body {"result": R} without an error property resolves
\* the call with R.
C5_ResolvesWithResult ==
  \A c \in DOMAIN calls :
    (Dispatched(calls[c]) /\ ReplyOf(calls[c]).kind = "body"
       /\ DOMAIN ReplyOf(calls[c]).body = {"result"}) =>
      /\ calls[c].state = "fulfilled"
      /\ calls[c].value = Json(ReplyOf(calls[c]).body["result"])

\* C5 (amended): a body {"result": R} without an error property resolves
\* the call with the body {"result": R} itself, unmodified.
C5_ResolvesWithBody ==
  \A c \in DOMAIN calls :
    (Dispatched(calls[c]) /\ ReplyOf(calls[c]).kind = "body"
       /\ DOMAIN ReplyOf(calls[c]).body = {"result"}) =>
      /\ calls[c].state = "fulfilled"
      /\ calls[c].value.type = "object"
      /\ calls[c].value.props = ReplyOf(calls[c]).body

\* C5 witness: the node answered {"result":{"ok":true}} and the call
\* resolved with {"result":{"ok":true}}.
C5_Witness ==
  \E c \in DOMAIN calls :
    /\ Dispatched(calls[c])
    /\ ReplyOf(calls[c]).body = [result |-> "{\"ok\":true}"]
    /\ calls[c].state = "fulfilled"
    /\ calls[c].value = Obj([result |-> "{\"ok\":true}"])

\* C6: a call sends its request to the url configured when it is made, plus
\* its route; setUrl changes nothing but url, so a request in flight keeps
\* its target; and the transport's answer to a request settles the call
\* that issued it, and no other call.
C6_SetUrlOrdering ==
  [][ /\ CallStep /\ Dispatched(NewCall) =>
           sent'[NewCall.fetch].request.url = url \o SpecRoute(NewCall.op)
      /\ \A r \in DOMAIN sent : sent'[r].request = sent[r].request
      /\ url' # url => (calls' = calls /\ sent' = sent)
      /\ \A r \in DOMAIN sent :
           sent'[r].reply # sent[r].reply =>
             \A c \in DOMAIN calls :
               IF calls[c].fetch = r
                 THEN /\ calls[c].state = "pending"
                      /\ calls'[c].state # "pending"
                      /\ sent'[r].reply.kind = "body" =>
                           calls'[c].value = Obj(sent'[r].reply.body)
                 ELSE calls'[c] = calls[c]
    ]_vars

\* C6 witness: a call was in flight when setUrl ran; it kept its target and
\* got its answer, and a later call went to the new url.
C6_Witness ==
  \E c, d \in DOMAIN calls :
    /\ c < d
    /\ Dispatched(calls[c]) /\ Dispatched(calls[d])
    /\ calls[c].state = "fulfilled"
    /\ calls[c].value = Obj(ReplyOf(calls[c]).body)
    /\ RequestOf(calls[c]).url = DefaultUrl \o SpecRoute(calls[c].op)
    /\ url = "http://example:1234/"
    /\ RequestOf(calls[d]).url = url \o SpecRoute(calls[d].op)

\* C7: a call of a no-parameter operation always sends one request, whose
\* params is [{}]; getMempool() without an id sends
\* {jsonrpc:"2.0", id:"1", method:"mempool", params:[{}]} to url + "nodeView/".
C7_NoParameterOperations ==
  [][ (CallStep /\ NewCall.op \in NoParamOps) =>
        /\ Len(sent') = Len(sent) + 1
        /\ NewCall.fetch = Len(sent')
        /\ sent'[Len(sent')].request.body.params = << EmptyObject >>
        /\ (NewCall.op = "getMempool" /\ NewCall.id = Undefined) =>
             /\ sent'[Len(sent')].request.url = url \o "nodeView/"
             /\ sent'[Len(sent')].request.method = "POST"
             /\ sent'[Len(sent')].request.body =
                  [ jsonrpc |-> "\"2.0\"", id |-> "\"1\"", method |-> "\"mempool\"",
                    params |-> << EmptyObject >> ]
    ]_vars

\* C7 witness: getMempool() was called without an id and its request is on
\* the wire.
C7_Witness ==
  \E c \in DOMAIN calls :
    /\ calls[c].op = "getMempool"
    /\ calls[c].id = Undefined
    /\ Dispatched(calls[c])
    /\ RequestOf(calls[c]).body.method = "\"mempool\""
    /\ RequestOf(calls[c]).body.params = << EmptyObject >>

\* C8 as stated: the envelope carries the id the caller supplied, whatever
\* it is, and "1" when the caller omitted it.
C8_CallerId ==
  \A c \in DOMAIN calls :
    Dispatched(calls[c]) =>
      RequestOf(calls[c]).body.id =
        IF calls[c].id = Undefined THEN "\"1\"" ELSE calls[c].id

\* C8 (amended): the envelope of every request carries the id the caller
\* supplied when that id is truthy, and "1" when the caller omitted it or
\* supplied a falsy one (0, null, "").
C8_TruthyCallerId ==
  \A c \in DOMAIN calls :
    Dispatched(calls[c]) =>
      RequestOf(calls[c]).body.id =
        IF Truthy(calls[c].id) THEN calls[c].id ELSE "\"1\""

\* C8 witness: a call with id 0 sent an envelope with id "1", and so did
\* nothing to tell it from a call without an id.
C8_Witness ==
  \E c \in DOMAIN calls :
    /\ calls[c].id = "0"
    /\ Dispatched(calls[c])
    /\ RequestOf(calls[c]).body.id = "\"1\""

\* C9: every operation with a required field, called without a parameter
\* object, fails with Error("A parameter object must be specified").
C9_ParameterObjectRequired ==
  \A c \in DOMAIN calls :
    (SpecRequired(calls[c].op) # << >> /\ calls[c].params.type = "undefined") =>
      /\ calls[c].state = "rejected"
      /\ calls[c].value = ParameterObjectError

\* C10: calcDelay with blockId and numBlocks sends one "delay" request with
\* them to url + "debug/"; without blockId it fails with the blockId error,
\* with blockId but without numBlocks with the numBlocks error.
C10_CalcDelay ==
  \A c \in DOMAIN calls :
    LET call == calls[c]
        o == call.params.props
    IN  (call.op = "calcDelay" /\ call.params.type = "object") =>
          IF ~Truthy(Prop(o, "blockId"))
            THEN call.state = "rejected" /\ call.value = FieldError("blockId")
          ELSE IF ~Truthy(Prop(o, "numBlocks"))
            THEN call.state = "rejected" /\ call.value = FieldError("numBlocks")
          ELSE /\ Dispatched(call)
               /\ RequestOf(call).body.method = "\"delay\""
               /\ RequestOf(call).body.params = << o >>

\* The call's arguments satisfy the operation's checks as documented: no
\* check for a no-parameter operation, else a parameter object with every
\* required field present (publicKeys an array, fee possibly 0).  calcDelay
\* is left out: no argument satisfies its checks (C10).
ValidCall(call) ==
  \/ call.op \in NoParamOps
  \/ /\ call.op # "calcDelay"
     /\ call.params.type = "object"
     /\ LackingButFeeZero(DocumentedRequired(call.op), call.params.props) = {}
     /\ call.op = "getBalancesByKey" => IsArray(Prop(call.params.props, "publicKeys"))

\* C11: under any interleaving, the requests issued are exactly one per
\* call that passed validation and none for a call that failed it, whatever
\* the transport or the node answered, and also for identical calls: no
\* request is shared by two calls and none belongs to no call.
C11_OneRequestPerValidCall ==
  /\ Len(sent) = Cardinality({c \in DOMAIN calls : ValidCall(calls[c])})
  /\ \A c \in DOMAIN calls : Dispatched(calls[c]) <=> ValidCall(calls[c])
  /\ \A c, d \in DOMAIN calls :
       (c # d /\ Dispatched(calls[c])) => calls[c].fetch # calls[d].fetch
  /\ \A r \in DOMAIN sent : \E c \in DOMAIN calls : calls[c].fetch = r

\* C11 witness: two identical calls were both issued while the first was in
\* flight; the transport failed one and the node refused the other, and two
\* requests were sent in all.
C11_Witness ==
  /\ Len(calls) = 2 /\ Len(sent) = 2
  /\ calls[1].op = calls[2].op
  /\ calls[1].params = calls[2].params
  /\ calls[1].id = calls[2].id
  /\ sent[1].request = sent[2].request
  /\ sent[1].reply.kind = "failure"
  /\ calls[1].value.type = "FetchError"
  /\ sent[2].reply.kind = "body"
  /\ calls[2].state = "rejected"

\* C12: the client starts with Content-Type application/json and a key;
\* every request issued carries Content-Type application/json and the
\* x-api-key configured at the moment of the call; a request already issued
\* keeps its headers; and a step that changes the headers (setApiKey)
\* changes the key only: not Content-Type, not the url, no call, no request.
C12_RequestHeaders ==
  /\ headers["Content-Type"] = "application/json"
  /\ headers["x-api-key"] \in ApiKeys
  /\ [][ /\ (CallStep /\ Dispatched(NewCall)) =>
              sent'[NewCall.fetch].request.headers =
                ("Content-Type" :> "application/json")
                  @@ ("x-api-key" :> headers["x-api-key"])
         /\ \A r \in DOMAIN sent : sent'[r].request.headers = sent[r].request.headers
         /\ headers' # headers =>
              /\ DOMAIN headers' = DOMAIN headers
              /\ headers'["Content-Type"] = headers["Content-Type"]
              /\ url' = url /\ calls' = calls /\ sent' = sent
       ]_vars

\* C12 witness: a request went out with the default key, setApiKey("k2")
\* ran while it was in flight, and the next request carries k2.
C12_Witness ==
  /\ Len(sent) = 2
  /\ sent[1].request.headers["x-api-key"] = DefaultApiKey
  /\ sent[2].request.headers["x-api-key"] = "k2"
  /\ sent[2].request.headers["Content-Type"] = "application/json"
  /\ headers["x-api-key"] = "k2"
  /\ sent[1].reply = NoReply

\* C13: url and headers change only by setUrl and setApiKey: a step that
\* makes a call (dispatched or rejected by its checks) or that settles one
\* (result, node error, transport failure) leaves both as they were.
C13_ConfigurationFrame ==
  [][ (calls' # calls \/ sent' # sent) => (url' = url /\ headers' = headers) ]_vars

\* C13 witness: the setters moved the client off its defaults, one call
\* failed its checks and another failed in transport, and the configuration
\* is still what the setters made it.
C13_Witness ==
  /\ url = "http://example:1234/"
  /\ headers["x-api-key"] = "k2"
  /\ Len(calls) = 2
  /\ ~Dispatched(calls[1]) /\ calls[1].value = ParameterObjectError
  /\ Dispatched(calls[2])
  /\ RequestOf(calls[2]).url = DefaultUrl \o "wallet/"
  /\ RequestOf(calls[2]).headers["x-api-key"] = DefaultApiKey
  /\ calls[2].value.type = "FetchError"

\* The method name of each operation in the document's operation table:
\* the operation's own name, except for the ones listed.
SpecMethod(op) ==
  CASE op = "getBalancesByKey" -> "balances"
    [] op = "signTransaction" -> "signTx"
    [] op = "getTransactionById" -> "transactionById"
    [] op = "getTransactionFromMempool" -> "transactionFromMempool"
    [] op = "getMempool" -> "mempool"
    [] op = "getBlockById" -> "blockById"
    [] op = "chainInfo" -> "info"
    [] op = "blockGenerators" -> "generators"
    [] op = "printChain" -> "chain"
    [] op = "calcDelay" -> "delay"
    [] OTHER -> op

SpecRoutes == {"wallet/", "asset/", "nodeView/", "debug/"}

\* The caller's parameter object: none, hence {}, for a no-parameter operation.
CallerObject(call) ==
  IF call.op \in NoParamOps THEN EmptyObject ELSE call.params.props

\* The properties of o whose value is not undefined.
DefinedProps(o) == [p \in {q \in DOMAIN o : o[q] # Undefined} |-> o[p]]

\* C14 as stated: every request issued is a POST to a configured url plus
\* the operation's route, one of the four routes, with jsonrpc "2.0", the
\* operation's method name, and params a one-element sequence holding the
\* caller's parameter object with all its fields, optional ones included.
C14_AllFields ==
  \A c \in DOMAIN calls :
    Dispatched(calls[c]) =>
      /\ RequestOf(calls[c]).method = "POST"
      /\ SpecRoute(calls[c].op) \in SpecRoutes
      /\ RequestOf(calls[c]).url \in {u \o SpecRoute(calls[c].op) : u \in Urls}
      /\ RequestOf(calls[c]).body.jsonrpc = "\"2.0\""
      /\ RequestOf(calls[c]).body.method = "\"" \o SpecMethod(calls[c].op) \o "\""
      /\ RequestOf(calls[c]).body.params = << CallerObject(calls[c]) >>

\* C14 (amended): every request issued is a POST to the url configured at
\* the call plus the operation's route, one of the four routes, with
\* jsonrpc "2.0", the operation's method name, and params a one-element
\* sequence holding the caller's parameter object with all its fields whose
\* value is not undefined, optional ones included.
C14_DefinedFields ==
  [][ (CallStep /\ Dispatched(NewCall)) =>
        LET request == sent'[NewCall.fetch].request IN
        /\ NewCall.fetch = Len(sent) + 1
        /\ request.method = "POST"
        /\ SpecRoute(NewCall.op) \in SpecRoutes
        /\ request.url = url \o SpecRoute(NewCall.op)
        /\ request.body.jsonrpc = "\"2.0\""
        /\ request.body.method = "\"" \o SpecMethod(NewCall.op) \o "\""
        /\ request.body.params = << DefinedProps(CallerObject(NewCall)) >>
    ]_vars

\* C14 witness: transferPolys was called with its required fields and with
\* data: undefined; the request holds the required fields and no data.
C14_Witness ==
  \E c \in DOMAIN calls :
    /\ calls[c].op = "transferPolys"
    /\ Dispatched(calls[c])
    /\ "data" \in DOMAIN calls[c].params.props
    /\ calls[c].params.props["data"] = Undefined
    /\ DOMAIN RequestOf(calls[c]).body.params[1] = {"recipient", "amount", "fee"}
    /\ RequestOf(calls[c]).body.method = "\"transferPolys\""

====
